---- MODULE Spec2Model ----
(***************************************************************************)
(* The VGA text buffer writer of src/src/vga_buffers.rs and the two        *)
(* execution contexts of src/src/main.rs (the entry point _start and the   *)
(* panic handler) that print through the global WRITER.                    *)
(*                                                                         *)
(* The state machines share the Writer operators:                          *)
(*   Spec        a Writer built by construct_writer() and driven through   *)
(*               its public methods, as the unit tests drive it;           *)
(*   KernelSpec  _start and the panic handler calling _print on the        *)
(*               lazily built, spin-locked WRITER on one core;             *)
(*   KernelFair  KernelSpec with the fairness a running context has;       *)
(*   ColorSpec   a Writer built with each pair of colors, for the          *)
(*               attribute byte of ColorCode::new.                         *)
(* Bytes are numbers 0..255, strings are sequences of bytes, and the grid  *)
(* is indexed from 0 like the Rust arrays.                                 *)
(***************************************************************************)
EXTENDS Integers, Sequences, FiniteSets, TLC

(***************************************************************************)
(* Bounds of the model.  The grid is scaled down: the source declares      *)
(* BUFFER_HEIGHT = 25 and BUFFER_WIDTH = 80 (vga_buffers.rs lines 122 and  *)
(* 123); no operation below depends on the values other than through      *)
(* these two names.                                                        *)
(***************************************************************************)
BUFFER_HEIGHT == 3
BUFFER_WIDTH == 3
\* bytes one run of the test driver passes to the Writer in all its calls
MaxBytes == 4

(***************************************************************************)
(* Bytes.                                                                  *)
(***************************************************************************)
NEWLINE == 10
PRINTABLE_FIRST == 32
PRINTABLE_LAST == 126
FALLBACK == 254
SPACE == 32

\* bytes a caller hands to write_byte, which takes any u8: 'a', 'b', the
\* newline and 0x80, a byte outside the printable range
SampleBytes == {97, 98, NEWLINE, 128}

\* A &str is valid UTF-8, so the strings handed to write_string are made of
\* whole characters: 'a', the newline and U+00E9 (two bytes, 0xC3 0xA9)
StringChars == {<<97>>, <<NEWLINE>>, <<195, 169>>}
\* characters around the edges of the printable range: U+0000, tab, vertical
\* tab, U+001F, space, '~', DEL, U+0080, U+00FF and U+1F600 (four bytes)
EdgeChars == {<<0>>, <<9>>, <<11>>, <<31>>, <<32>>, <<126>>, <<127>>,
              <<194, 128>>, <<195, 191>>, <<240, 159, 152, 128>>}
\* the formatted writes: a literal 'a' or 'b', then nothing or the argument 'c'
LiteralInputs == {<<97>>, <<98>>}
ArgumentInputs == {<<>>, <<99>>}

\* the strings of at most n bytes made of the given characters
RECURSIVE StringsOver(_, _)
StringsOver(chars, n) ==
    {<<>>} \cup UNION {{ch \o s : s \in StringsOver(chars, n - Len(ch))} :
                       ch \in {x \in chars : Len(x) <= n}}

\* the non-empty strings of at most n bytes, for every n up to the budget
StringInputs == [n \in 0..MaxBytes |-> StringsOver(StringChars, n) \ {<<>>}]
\* one-character strings tried one per run, as the only call on a fresh Writer
EdgeStrings == {ch \in EdgeChars : Len(ch) <= MaxBytes}

(***************************************************************************)
(* Color and ColorCode.                                                    *)
(***************************************************************************)
Color == [Black |-> 0, Blue |-> 1, Green |-> 2, Cyan |-> 3, Red |-> 4,
          Magenta |-> 5, Brown |-> 6, LightGray |-> 7, DarkGray |-> 8,
          LightBlue |-> 9, LightGreen |-> 10, LightCyan |-> 11,
          LightRed |-> 12, Pink |-> 13, Yellow |-> 14, White |-> 15]

\* u8 << n : the bits shifted past bit 7 are dropped
RECURSIVE Shl8(_, _)
Shl8(x, n) == IF n = 0 THEN x % 256 ELSE Shl8((2 * x) % 256, n - 1)

\* bitwise or of two u8 values
RECURSIVE BitOr8(_, _, _)
BitOr8(x, y, bits) ==
    IF bits = 0 THEN 0
    ELSE (IF x % 2 = 1 \/ y % 2 = 1 THEN 1 ELSE 0)
         + 2 * BitOr8(x \div 2, y \div 2, bits - 1)

\* ColorCode::new with the two colors taken for each other
ColorCode_new_swapped(foreground, background) ==
    BitOr8(Shl8(foreground, 4), background, 8)

ColorCode_new(foreground, background) ==
    BitOr8(Shl8(background, 4), foreground, 8)

(***************************************************************************)
(* ScreenChar and Buffer.                                                  *)
(***************************************************************************)
ScreenChar(ascii_character, color_code) ==
    [ascii_character |-> ascii_character, color_code |-> color_code]

Rows == 0..(BUFFER_HEIGHT - 1)
Cols == 0..(BUFFER_WIDTH - 1)

\* Volatile::read and Volatile::write of chars[row][col]
ReadCell(buffer, row, col) == buffer[row][col]
WriteCell(buffer, row, col, character) ==
    [buffer EXCEPT ![row] = [@ EXCEPT ![col] = character]]

\* test::empty_char
empty_char == ScreenChar(SPACE, ColorCode_new(Color.Green, Color.Brown))

\* test::construct_buffer: every cell the empty_char
construct_buffer == [row \in Rows |-> [col \in Cols |-> empty_char]]

\* a grid whose cells all differ, so that every move of a cell shows:
\* cell (row, col) holds the printable character '!' + row * BUFFER_WIDTH + col
PatternBuffer ==
    [row \in Rows |-> [col \in Cols |->
        ScreenChar(33 + row * BUFFER_WIDTH + col,
                   ColorCode_new(Color.White, Color.Red))]]

(***************************************************************************)
(* Writer.  A Writer value is a record of the struct's fields              *)
(* column_position, color_code and buffer (the grid the reference points   *)
(* to), and of three fields that only record what the methods did:         *)
(* new_lines counts the calls of new_line, bytes lists the arguments of    *)
(* the calls of write_byte, and touched is the set of the index pairs      *)
(* <<row, col>> the methods used in chars[row][col], in range or not.      *)
(***************************************************************************)
Writer(column_position, color_code, buffer) ==
    [column_position |-> column_position, color_code |-> color_code,
     buffer |-> buffer, new_lines |-> 0, bytes |-> <<>>, touched |-> {}]

\* clear_row: the loop over col in 0..BUFFER_WIDTH
RECURSIVE ClearCols(_, _, _, _)
ClearCols(buffer, row, col, blank) ==
    IF col >= BUFFER_WIDTH THEN buffer
    ELSE ClearCols(WriteCell(buffer, row, col, blank), row, col + 1, blank)

\* clear_row that fills the row with zero bytes in place of spaces
clear_row_zeroes(self, row) ==
    LET blank == ScreenChar(0, self.color_code)
    IN  [self EXCEPT !.buffer = ClearCols(self.buffer, row, 0, blank),
                     !.touched = @ \cup {<<row, col>> : col \in 0..(BUFFER_WIDTH - 1)}]

clear_row(self, row) ==
    LET blank == ScreenChar(SPACE, self.color_code)
    IN  [self EXCEPT !.buffer = ClearCols(self.buffer, row, 0, blank),
                     !.touched = @ \cup {<<row, col>> : col \in 0..(BUFFER_WIDTH - 1)}]

\* new_line: the inner loop over col in 0..BUFFER_WIDTH, one cell read and
\* written at a time, in place
RECURSIVE ShiftCols(_, _, _)
ShiftCols(buffer, row, col) ==
    IF col >= BUFFER_WIDTH THEN buffer
    ELSE ShiftCols(WriteCell(buffer, row - 1, col, ReadCell(buffer, row, col)),
                   row, col + 1)

\* the rows taken from the bottom up: every row but the last is read after
\* it was overwritten
RECURSIVE ShiftRowsBottomUp(_, _)
ShiftRowsBottomUp(buffer, row) ==
    IF row >= BUFFER_HEIGHT THEN buffer
    ELSE ShiftCols(ShiftRowsBottomUp(buffer, row + 1), row, 0)

\* new_line: the outer loop over row in 1..BUFFER_HEIGHT
RECURSIVE ShiftRows(_, _)
ShiftRows(buffer, row) ==
    IF row >= BUFFER_HEIGHT THEN buffer
    ELSE ShiftRows(ShiftCols(buffer, row, 0), row + 1)

\* the index pairs of new_line's loops: chars[row][col] is read and
\* chars[row - 1][col] written for row in 1..BUFFER_HEIGHT, col in 0..BUFFER_WIDTH
ShiftIndices ==
    UNION {{<<row, col>>, <<row - 1, col>>} :
           row \in 1..(BUFFER_HEIGHT - 1), col \in 0..(BUFFER_WIDTH - 1)}

\* new_line that leaves column_position where it was
new_line_keeps_column(self) ==
    [clear_row([self EXCEPT !.buffer = ShiftRows(self.buffer, 1),
                            !.touched = @ \cup ShiftIndices],
               BUFFER_HEIGHT - 1)
        EXCEPT !.new_lines = @ + 1]

new_line(self) ==
    [clear_row([self EXCEPT !.buffer = ShiftRows(self.buffer, 1),
                            !.touched = @ \cup ShiftIndices],
               BUFFER_HEIGHT - 1)
        EXCEPT !.column_position = 0, !.new_lines = @ + 1]

\* the second arm of write_byte's match writing to the first row of the grid
PutByteFirstRow(self, byte) ==
    LET wrapped == IF self.column_position >= BUFFER_WIDTH
                   THEN new_line(self) ELSE self
    IN  [wrapped EXCEPT
            !.buffer = WriteCell(@, 0, wrapped.column_position,
                                 ScreenChar(byte, wrapped.color_code)),
            !.touched = @ \cup {<<0, wrapped.column_position>>},
            !.column_position = @ + 1]

\* the second arm of write_byte's match without the test of column_position
PutByteNoWrap(self, byte) ==
    [self EXCEPT
        !.buffer = WriteCell(@, BUFFER_HEIGHT - 1, self.column_position,
                             ScreenChar(byte, self.color_code)),
        !.touched = @ \cup {<<BUFFER_HEIGHT - 1, self.column_position>>},
        !.column_position = @ + 1]

\* the second arm of write_byte's match: any byte but the newline
PutByte(self, byte) ==
    LET wrapped == IF self.column_position >= BUFFER_WIDTH
                   THEN new_line(self) ELSE self
        row == BUFFER_HEIGHT - 1
        col == wrapped.column_position
        color_code == wrapped.color_code
    IN  [wrapped EXCEPT
            !.buffer = WriteCell(@, row, col, ScreenChar(byte, color_code)),
            !.touched = @ \cup {<<row, col>>},
            !.column_position = @ + 1]

\* write_byte that wraps right after it placed a character in the last column
write_byte_wraps_early(self, byte) ==
    LET logged == [self EXCEPT !.bytes = Append(@, byte)]
        put == [logged EXCEPT
                   !.buffer = WriteCell(@, BUFFER_HEIGHT - 1, logged.column_position,
                                        ScreenChar(byte, logged.color_code)),
                   !.touched = @ \cup {<<BUFFER_HEIGHT - 1, logged.column_position>>},
                   !.column_position = @ + 1]
    IN  IF byte = NEWLINE THEN new_line(logged)
        ELSE IF put.column_position >= BUFFER_WIDTH THEN new_line(put) ELSE put

\* write_byte that takes a newline at column 0 for nothing to do
write_byte_skips_empty_line(self, byte) ==
    LET logged == [self EXCEPT !.bytes = Append(@, byte)]
    IN  IF byte = NEWLINE
        THEN (IF logged.column_position = 0 THEN logged ELSE new_line(logged))
        ELSE PutByte(logged, byte)

write_byte(self, byte) ==
    LET logged == [self EXCEPT !.bytes = Append(@, byte)]
    IN  IF byte = NEWLINE THEN new_line(logged) ELSE PutByte(logged, byte)

\* the match of write_string's loop body that forwards every byte as it is
WriteStringByteUnfiltered(self, byte) == write_byte(self, byte)

\* the match of write_string's loop body
WriteStringByte(self, byte) ==
    IF (PRINTABLE_FIRST <= byte /\ byte <= PRINTABLE_LAST) \/ byte = NEWLINE
    THEN write_byte(self, byte)
    ELSE write_byte(self, FALLBACK)

\* write_string: the loop over s.bytes()
RECURSIVE write_string(_, _)
write_string(self, s) ==
    IF s = <<>> THEN self
    ELSE write_string(WriteStringByte(self, Head(s)), Tail(s))

\* write_str that starts every piece it is handed at column 0
write_str_from_column_0(self, s) ==
    [writer |-> write_string([self EXCEPT !.column_position = 0], s),
     result |-> "Ok"]

\* write_str that reports an error for the empty string
write_str_rejects_empty(self, s) ==
    [writer |-> write_string(self, s),
     result |-> IF s = <<>> THEN "Err" ELSE "Ok"]

\* fmt::Write::write_str
write_str(self, s) == [writer |-> write_string(self, s), result |-> "Ok"]

\* fmt::Write::write_fmt: the pieces of the rendered arguments go to write_str
\* one after the other, and the first error ends the call
RECURSIVE write_fmt(_, _)
write_fmt(self, pieces) ==
    IF pieces = <<>> THEN [writer |-> self, result |-> "Ok"]
    ELSE LET first == write_str(self, Head(pieces))
         IN  IF first.result = "Ok" THEN write_fmt(first.writer, Tail(pieces))
             ELSE first

\* test::construct_writer, on a given grid
construct_writer(buffer) ==
    Writer(0, ColorCode_new(Color.Blue, Color.Magenta), buffer)

(***************************************************************************)
(* State.                                                                  *)
(*   writer    the Writer: the test's, or the one inside WRITER            *)
(*   initial   the Writer as it was built (before that, the grid as the    *)
(*             kernel found it)                                            *)
(*   prev      the Writer before the latest call of the test driver        *)
(*   calls     the calls the test driver made: [name, arg]                 *)
(*   once      state of the lazy_static cell holding WRITER                *)
(*   locked    the spin Mutex's lock flag                                  *)
(*   pc        where each execution context stands                         *)
(*   text      the bytes each context's print call renders                 *)
(*   pending   what is left of them to write                               *)
(*   running   the context the core executes                               *)
(*   order     the contexts in the order they acquired the lock            *)
(*   spins     parity of the failed tests each context made while spinning *)
(*   foreground, background                                                *)
(*             the colors the Writer's attribute is made of                *)
(*   failing   the contexts whose print call has an argument whose         *)
(*             Display::fmt returns Err once the text is rendered          *)
(***************************************************************************)
VARIABLES writer, initial, prev, calls,
          once, locked, pc, text, pending, running, order, spins,
          foreground, background, failing

kernelVars == <<once, locked, pc, text, pending, running, order, spins>>
inputVars == <<foreground, background, failing>>
vars == <<writer, initial, prev, calls,
          once, locked, pc, text, pending, running, order, spins,
          foreground, background, failing>>

Contexts == {"main", "panic"}

\* the kernel part of the state while a test drives a Writer of its own
KernelIdle ==
    /\ once = "INCOMPLETE"
    /\ locked = FALSE
    /\ pc = [c \in Contexts |-> "idle"]
    /\ text = [c \in Contexts |-> <<>>]
    /\ pending = [c \in Contexts |-> <<>>]
    /\ running = "main"
    /\ order = <<>>
    /\ spins = [c \in Contexts |-> 0]
    /\ failing = {}

(***************************************************************************)
(* The test driver: mod test builds a Writer on a grid of its own and      *)
(* calls write_byte (test::write_byte) or writeln! (test::write_formatted) *)
(* on it; write_string is the third public method.                         *)
(***************************************************************************)
\* the grids a Writer is built on: the blank one of construct_buffer and the
\* patterned one
GridInputs == {construct_buffer, PatternBuffer}

Init ==
    /\ foreground = Color.Blue
    /\ background = Color.Magenta
    /\ \E buffer \in GridInputs : writer = construct_writer(buffer)
    /\ initial = writer
    /\ prev = writer
    /\ calls = <<>>
    /\ KernelIdle

\* bytes the driver passed in the arguments of its calls
RECURSIVE Passed(_)
Passed(cs) == IF cs = <<>> THEN 0 ELSE Len(Head(cs).arg) + Passed(Tail(cs))

\* the driver's budget: MaxBytes bytes in all; a run that tries an edge
\* string makes no other call
Budget ==
    IF \E i \in 1..Len(calls) : calls[i].arg \in EdgeStrings THEN 0
    ELSE MaxBytes - Passed(calls)

MayCall(n) == n <= Budget

Called(name, arg, after) ==
    /\ writer' = after
    /\ prev' = writer
    /\ calls' = Append(calls, [name |-> name, arg |-> arg])
    /\ UNCHANGED <<inputVars, initial, kernelVars>>

\* writer.write_byte(byte)
WriteByte(byte) ==
    /\ MayCall(1)
    /\ Called("write_byte", <<byte>>, write_byte(writer, byte))

\* writer.write_string(s)
WriteString(s) ==
    /\ MayCall(Len(s))
    /\ Called("write_string", s, write_string(writer, s))

\* writeln!(writer, "<literal>{}", argument).unwrap(): the literal, the
\* argument and the newline reach write_str as three pieces
Writeln(literal, argument) ==
    /\ MayCall(Len(literal) + Len(argument))
    /\ LET done == write_fmt(writer, <<literal, argument, <<NEWLINE>>>>)
       IN  /\ done.result = "Ok"
           /\ Called("writeln", literal \o argument, done.writer)

Next ==
    \/ \E byte \in SampleBytes : WriteByte(byte)
    \/ \E s \in StringInputs[Budget] : WriteString(s)
    \/ \E s \in EdgeStrings : calls = <<>> /\ WriteString(s)
    \/ \E literal \in LiteralInputs, argument \in ArgumentInputs :
          Writeln(literal, argument)

Spec == Init /\ [][Next]_vars

(***************************************************************************)
(* The kernel: _start prints "Hello World" with println! and idles in      *)
(* loop {}; the panic handler prints the PanicInfo with println! and idles *)
(* too.  There is one core and no scheduler: the handler's context takes   *)
(* the core from _start at any point, also in the middle of its print      *)
(* call, and never gives it back (fn panic(..) -> !).                      *)
(*                                                                         *)
(* A context inside _print stands at                                       *)
(*   "deref"  about to dereference WRITER (lazy_static's Once)             *)
(*   "init"   running the initializer of WRITER                            *)
(*   "lock"   in Mutex::lock, spinning until the flag is clear             *)
(*   "write"  holding the MutexGuard, inside write_fmt                     *)
(*   "loop"   back from _print, in loop {}                                 *)
(*   "unwrap" in the panic that unwrap raised inside _print's statement,   *)
(*            whose temporaries (the MutexGuard) are still alive           *)
(* A spinning context repeats a test that fails and changes nothing but    *)
(* the count of its tests, kept modulo 2.                                  *)
(***************************************************************************)
\* "Hello World" and the newline println! appends, rendered in one call
HelloWorld == <<72, 101, 108, 108, 111, 32, 87, 111, 114, 108, 100, NEWLINE>>

\* what the PanicInfo renders to: "p", or U+00E9 and "!"
PanicInputs == {<<112>>, <<195, 169, 33>>}

\* the print call of the first context: println!("Hello World") as in _start,
\* or a call of the exported print! with arguments that render "He" and then
\* reach a Display::fmt that returns Err
StartInputs == {[text |-> HelloWorld, fails |-> FALSE],
                [text |-> <<72, 101>>, fails |-> TRUE]}

\* before its first use WRITER holds no Writer: only the VGA memory is there,
\* as the boot left it (the fields read 0 until the initializer has run)
KernelInit ==
    /\ foreground = Color.Yellow
    /\ background = Color.Black
    /\ \E buffer \in GridInputs : writer = Writer(0, 0, buffer)
    /\ initial = writer
    /\ prev = writer
    /\ calls = <<>>
    /\ once = "INCOMPLETE"
    /\ locked = FALSE
    /\ pc = [c \in Contexts |-> IF c = "main" THEN "deref" ELSE "idle"]
    /\ \E start \in StartInputs :
          /\ text = [c \in Contexts |-> IF c = "main" THEN start.text ELSE <<>>]
          /\ failing = IF start.fails THEN {"main"} ELSE {}
    /\ pending = text
    /\ running = "main"
    /\ order = <<>>
    /\ spins = [c \in Contexts |-> 0]

\* the value of the lazy_static: Mutex::new(Writer { .. }) on the VGA memory
WRITER_new(buffer) == Writer(0, ColorCode_new(Color.Yellow, Color.Black), buffer)

\* WRITER dereferenced with no Once: every access runs the initializer
DerefEveryTime(c) ==
    /\ running = c /\ pc[c] = "deref"
    /\ once' = "RUNNING"
    /\ pc' = [pc EXCEPT ![c] = "init"]
    /\ UNCHANGED <<inputVars, writer, initial, prev, calls, locked, text, pending, running, order, spins>>

\* WRITER dereferenced: Once::call_once goes on when the value is there, runs
\* the initializer when nobody has, and spins while somebody else does
Deref(c) ==
    /\ running = c /\ pc[c] = "deref"
    /\ \/ /\ once = "COMPLETE"
          /\ pc' = [pc EXCEPT ![c] = "lock"]
          /\ UNCHANGED once
       \/ /\ once = "INCOMPLETE"
          /\ once' = "RUNNING"
          /\ pc' = [pc EXCEPT ![c] = "init"]
    /\ UNCHANGED <<inputVars, writer, initial, prev, calls, locked, text, pending, running, order, spins>>

\* the initializer of WRITER
Construct(c) ==
    /\ running = c /\ pc[c] = "init"
    /\ writer' = WRITER_new(writer.buffer)
    /\ initial' = writer'
    /\ once' = "COMPLETE"
    /\ pc' = [pc EXCEPT ![c] = "lock"]
    /\ UNCHANGED <<inputVars, prev, calls, locked, text, pending, running, order, spins>>

\* Mutex::lock that takes the lock whether or not it is held
LockUnchecked(c) ==
    /\ running = c /\ pc[c] = "lock"
    /\ locked' = TRUE
    /\ pc' = [pc EXCEPT ![c] = "write"]
    /\ order' = Append(order, c)
    /\ UNCHANGED <<inputVars, writer, initial, prev, calls, once, text, pending, running, spins>>

\* WRITER.lock(): the flag goes from clear to set in one atomic step
Lock(c) ==
    /\ running = c /\ pc[c] = "lock"
    /\ locked = FALSE
    /\ locked' = TRUE
    /\ pc' = [pc EXCEPT ![c] = "write"]
    /\ order' = Append(order, c)
    /\ UNCHANGED <<inputVars, writer, initial, prev, calls, once, text, pending, running, spins>>

\* write_fmt under the guard: the next byte of the rendered text goes through
\* the loop body of write_string
WriteNext(c) ==
    /\ running = c /\ pc[c] = "write"
    /\ pending[c] # <<>>
    /\ writer' = WriteStringByte(writer, Head(pending[c]))
    /\ pending' = [pending EXCEPT ![c] = Tail(@)]
    /\ UNCHANGED <<inputVars, initial, prev, calls, once, locked, pc, text, running, order, spins>>

\* write_fmt returned Ok, unwrap passes, the guard is dropped and _print
\* returns to a caller that goes into loop {}
Unlock(c) ==
    /\ running = c /\ pc[c] = "write"
    /\ pending[c] = <<>>
    /\ c \notin failing
    /\ locked' = FALSE
    /\ pc' = [pc EXCEPT ![c] = "loop"]
    /\ UNCHANGED <<inputVars, writer, initial, prev, calls, once, text, pending, running, order, spins>>

\* a panic (a fault, an exception) takes the core from _start: the handler
\* calls println!("{}", _info)
Panic(message) ==
    /\ running = "main" /\ pc["panic"] = "idle"
    /\ running' = "panic"
    /\ pc' = [pc EXCEPT !["panic"] = "deref"]
    /\ text' = [text EXCEPT !["panic"] = Append(message, NEWLINE)]
    /\ pending' = [pending EXCEPT !["panic"] = Append(message, NEWLINE)]
    /\ UNCHANGED <<inputVars, writer, initial, prev, calls, once, locked, order, spins>>

\* write_fmt returned Err and unwrap panics inside the statement
\* WRITER.lock().write_fmt(args).unwrap(): the panic handler takes the core
\* for good (fn panic(..) -> !, no unwinding), so the statement never ends and
\* the MutexGuard, a temporary of the statement, is never dropped
Fail(c, message) ==
    /\ running = c /\ pc[c] = "write"
    /\ pending[c] = <<>>
    /\ c \in failing
    /\ pc["panic"] = "idle"
    /\ running' = "panic"
    /\ pc' = [pc EXCEPT ![c] = "unwrap", !["panic"] = "deref"]
    /\ text' = [text EXCEPT !["panic"] = Append(message, NEWLINE)]
    /\ pending' = [pending EXCEPT !["panic"] = Append(message, NEWLINE)]
    /\ UNCHANGED <<inputVars, writer, initial, prev, calls, once, locked, order, spins>>

\* one more failed test of a busy-wait: of Once's state while another
\* context runs the initializer, of the Mutex's flag while it is set
Spin(c) ==
    /\ running = c
    /\ \/ pc[c] = "deref" /\ once = "RUNNING"
       \/ pc[c] = "lock" /\ locked
    /\ spins' = [spins EXCEPT ![c] = 1 - @]
    /\ UNCHANGED <<inputVars, writer, initial, prev, calls, once, locked, pc, text, pending,
                   running, order>>

\* the steps of a context inside _print
Step(c) ==
    \/ Deref(c) \/ Construct(c) \/ Lock(c) \/ Spin(c) \/ WriteNext(c) \/ Unlock(c)
    \/ \E message \in PanicInputs : Fail(c, message)

KernelNext ==
    \/ \E c \in Contexts : Step(c)
    \/ \E message \in PanicInputs : Panic(message)

KernelSpec == KernelInit /\ [][KernelNext]_vars

\* the context that has the core goes on whenever it can
KernelFair == KernelSpec /\ \A c \in Contexts : WF_vars(Step(c))

(***************************************************************************)
(* The attribute byte: a Writer is built as construct_writer and WRITER    *)
(* build theirs, Writer { column_position: 0, color_code:                  *)
(* ColorCode::new(foreground, background), buffer }, for every pair of     *)
(* colors.                                                                 *)
(***************************************************************************)
\* the discriminants of the variants of Color
ColorValues == {Color[name] : name \in DOMAIN Color}

\* the colors are chosen; no Writer is built yet (the fields read 0)
ColorInit ==
    /\ foreground \in ColorValues
    /\ background \in ColorValues
    /\ writer = Writer(0, 0, construct_buffer)
    /\ initial = writer
    /\ prev = writer
    /\ calls = <<>>
    /\ KernelIdle

\* Writer { column_position: 0, color_code: ColorCode::new(..), buffer }
ConstructWriter ==
    /\ calls = <<>>
    /\ Called("ColorCode_new", <<foreground, background>>,
              Writer(0, ColorCode_new(foreground, background), writer.buffer))

ColorNext == ConstructWriter

ColorSpec == ColorInit /\ [][ColorNext]_vars

(***************************************************************************)
(* Vocabulary of the properties of the Writer.                             *)
(***************************************************************************)
LAST_ROW == BUFFER_HEIGHT - 1

\* the latest call of the driver, when there is one
Latest == calls[Len(calls)]
LatestIs(name) == Len(calls) > 0 /\ Latest.name = name

\* the blank Cell of a Writer: a space in the Writer's attribute
Blank(w) == ScreenChar(SPACE, w.color_code)

IsPrintable(byte) == byte \in PRINTABLE_FIRST..PRINTABLE_LAST
Representable == (PRINTABLE_FIRST..PRINTABLE_LAST) \cup {FALLBACK}

\* what the spec has write_string hand on for an input byte
Forwarded(byte) ==
    IF IsPrintable(byte) \/ byte = NEWLINE THEN byte ELSE FALLBACK

\* the bytes handed to write_byte after the latest newline: the current line
RECURSIVE CurrentLine(_)
CurrentLine(bytes) ==
    IF bytes = <<>> \/ bytes[Len(bytes)] = NEWLINE THEN <<>>
    ELSE Append(CurrentLine(SubSeq(bytes, 1, Len(bytes) - 1)), bytes[Len(bytes)])

\* the calls of new_line a sequence of bytes written from column 0 asks for,
\* when a line wraps before the character that no longer fits: one for each
\* newline and one for each full row a line spills over
RECURSIVE ScrollsFor(_, _)
ScrollsFor(bytes, column) ==
    IF bytes = <<>> THEN 0
    ELSE IF Head(bytes) = NEWLINE THEN 1 + ScrollsFor(Tail(bytes), 0)
    ELSE IF column = BUFFER_WIDTH THEN 1 + ScrollsFor(Tail(bytes), 1)
    ELSE ScrollsFor(Tail(bytes), column + 1)

\* C4 (wrap-on-fill): WIDTH bytes written from column 0 fill the last row in
\* order without a scroll and leave column_position = WIDTH; the byte after
\* them scrolls exactly once, so that the WIDTH bytes are on row HEIGHT-2, the
\* new byte is at (HEIGHT-1, 0), the rest of the last row is blank and
\* column_position = 1.
C4_WrapOnFill ==
    LET line == CurrentLine(writer.bytes)
        before == SubSeq(writer.bytes, 1, Len(writer.bytes) - Len(line))
    IN  /\ Len(line) = BUFFER_WIDTH =>
              /\ writer.new_lines = ScrollsFor(before, 0)
              /\ writer.column_position = BUFFER_WIDTH
              /\ \A col \in Cols :
                    writer.buffer[LAST_ROW][col]
                       = ScreenChar(line[col + 1], writer.color_code)
        /\ Len(line) = BUFFER_WIDTH + 1 =>
              /\ writer.new_lines = ScrollsFor(before, 0) + 1
              /\ writer.column_position = 1
              /\ \A col \in Cols :
                    writer.buffer[LAST_ROW - 1][col]
                       = ScreenChar(line[col + 1], writer.color_code)
              /\ writer.buffer[LAST_ROW][0]
                    = ScreenChar(line[BUFFER_WIDTH + 1], writer.color_code)
              /\ \A col \in Cols \ {0} : writer.buffer[LAST_ROW][col] = Blank(writer)

\* a line of WIDTH + 1 bytes was written: the wrap has happened
C4_Witness ==
    /\ Len(CurrentLine(writer.bytes)) = BUFFER_WIDTH + 1
    /\ writer.column_position = 1

\* C5 (newline): write_byte of the newline at any column_position in 0..WIDTH
\* calls new_line exactly once, stores no cell for the newline (the grid is
\* the old one scrolled, with a blank last row) and leaves column_position 0.
C5_Newline ==
    (LatestIs("write_byte") /\ Latest.arg = <<NEWLINE>>) =>
        /\ prev.column_position \in 0..BUFFER_WIDTH
        /\ writer.new_lines = prev.new_lines + 1
        /\ writer.column_position = 0
        /\ \A row \in Rows, col \in Cols :
              /\ writer.buffer[row][col].ascii_character # NEWLINE
              /\ writer.buffer[row][col]
                    = IF row = LAST_ROW THEN Blank(prev)
                      ELSE prev.buffer[row + 1][col]

\* the newline was written at column WIDTH, with the last row full
C5_Witness ==
    /\ LatestIs("write_byte") /\ Latest.arg = <<NEWLINE>>
    /\ prev.column_position = BUFFER_WIDTH
    /\ writer.column_position = 0

\* the rows of a grid differ pairwise
DistinctRows(buffer) ==
    \A r1 \in Rows, r2 \in Rows : r1 # r2 => buffer[r1] # buffer[r2]

\* all rows moved up at once, a blank row at the bottom
ShiftedAtOnce(buffer, blank) ==
    [row \in Rows |-> IF row = LAST_ROW THEN [col \in Cols |-> blank]
                      ELSE buffer[row + 1]]

\* the latest call was one new_line and nothing else
OneNewLine ==
    /\ Len(calls) > 0
    /\ Latest.name \in {"write_byte", "write_string"}
    /\ Latest.arg = <<NEWLINE>>

MapBytes(f(_), s) == [i \in 1..Len(s) |-> f(s[i])]

\* C7 (fallback substitution): write_string issues one write_byte per input
\* byte, in input order: the byte itself when it is printable or the newline,
\* 0xFE and never the byte otherwise; the cells of the line being written
\* store the bytes issued.
C7_Fallback ==
    LatestIs("write_string") =>
        LET s == Latest.arg
            issued == SubSeq(writer.bytes, Len(prev.bytes) + 1, Len(writer.bytes))
        IN  /\ SubSeq(writer.bytes, 1, Len(prev.bytes)) = prev.bytes
            /\ Len(issued) = Len(s)
            /\ \A i \in 1..Len(s) :
                  /\ IsPrintable(s[i]) => issued[i] = s[i]
                  /\ s[i] = NEWLINE => issued[i] = NEWLINE
                  /\ (~IsPrintable(s[i]) /\ s[i] # NEWLINE) =>
                        (issued[i] = FALLBACK /\ issued[i] # s[i])
            /\ \A col \in 0..(writer.column_position - 1) :
                  /\ Len(issued) - writer.column_position + col + 1 >= 1 =>
                        writer.buffer[LAST_ROW][col].ascii_character
                           = Forwarded(s[Len(s) - writer.column_position + col + 1])
            /\ \A row \in Rows, col \in Cols :
                  writer.buffer[row][col].ascii_character # NEWLINE

\* a string with a byte outside the printable range was written and its cell
\* holds the fallback
C7_Witness ==
    /\ LatestIs("write_string")
    /\ \E i \in 1..Len(Latest.arg) : Latest.arg[i] \notin (PRINTABLE_FIRST..PRINTABLE_LAST) \cup {NEWLINE}
    /\ writer.column_position > 0
    /\ writer.buffer[LAST_ROW][writer.column_position - 1].ascii_character = FALLBACK

\* every cell of a grid holds the blank character
AllBlank(buffer) ==
    \A row \in Rows, col \in Cols : buffer[row][col].ascii_character = SPACE

AllRepresentable(buffer) ==
    \A row \in Rows, col \in Cols : buffer[row][col].ascii_character \in Representable

\* C8 as the claim states it: from a blank grid, whatever the Writer's
\* operations, every cell holds a byte in 0x20..0x7E or 0xFE.
C8_AsClaimed == AllBlank(initial.buffer) => AllRepresentable(writer.buffer)

\* the callers handed write_byte only the newline and representable bytes
NoRawByte ==
    \A i \in 1..Len(calls) :
        calls[i].name = "write_byte" => calls[i].arg[1] \in Representable \cup {NEWLINE}

\* C8 (amended): from a blank grid, every cell holds a byte in 0x20..0x7E or
\* 0xFE as long as the callers of write_byte itself hand it only the newline
\* and bytes of that set; write_string and the formatted writes may be handed
\* anything.
C8_Representable ==
    (AllBlank(initial.buffer) /\ NoRawByte) => AllRepresentable(writer.buffer)

\* a string with an unprintable character went through write_string and
\* write_byte was called too
C8_Witness ==
    /\ AllBlank(initial.buffer) /\ NoRawByte
    /\ \E i \in 1..Len(calls) : calls[i].name = "write_byte"
    /\ \E i \in 1..Len(calls) :
          calls[i].name = "write_string" /\ \E j \in 1..Len(calls[i].arg) : calls[i].arg[j] > PRINTABLE_LAST
    /\ \E col \in Cols : writer.buffer[LAST_ROW][col].ascii_character = FALLBACK

\* the driver called nothing but write_byte, with bytes other than the newline
OnlyPlainBytes ==
    \A i \in 1..Len(calls) :
        calls[i].name = "write_byte" /\ calls[i].arg # <<NEWLINE>>

\* C9 (byte placement): on a freshly cleared Writer, k <= WIDTH bytes other
\* than the newline written with write_byte are in the last row from column 0
\* in the Writer's attribute, column_position is k and every other cell is
\* the blank cell it was.
C9_Placement ==
    (initial.buffer = construct_buffer /\ OnlyPlainBytes /\ Len(calls) <= BUFFER_WIDTH) =>
        /\ writer.column_position = Len(calls)
        /\ \A row \in Rows, col \in Cols :
              writer.buffer[row][col]
                 = IF row = LAST_ROW /\ col < Len(calls)
                   THEN ScreenChar(calls[col + 1].arg[1], writer.color_code)
                   ELSE empty_char

\* WIDTH bytes were written that way, two different ones first
C9_Witness ==
    /\ initial.buffer = construct_buffer /\ OnlyPlainBytes
    /\ Len(calls) = BUFFER_WIDTH
    /\ calls[1].arg # calls[2].arg
    /\ writer.buffer[LAST_ROW][1].ascii_character = calls[2].arg[1]

\* the driver made nothing but formatted writes of a line and a newline
OnlyLines == \A i \in 1..Len(calls) : calls[i].name = "writeln"

\* C10 (formatted lines stack upward): after n < HEIGHT formatted writes of a
\* line of 1..WIDTH printable bytes and a newline, line j is on row
\* HEIGHT-2-(n-j) from column 0 in the Writer's attribute, the last row is
\* blank in the Writer's attribute, column_position is 0 and rows
\* 0..HEIGHT-2-n hold the initial rows n..HEIGHT-2.  The rest of a line's row
\* is blank in the Writer's attribute, but for the first line, written over
\* the initial last row.  For the lines "a" and "bc": 'a' at (HEIGHT-3, 0),
\* 'b' at (HEIGHT-2, 0), 'c' at (HEIGHT-2, 1).
C10_LinesStack ==
    LET n == Len(calls)
    IN  (OnlyLines /\ n \in 1..(BUFFER_HEIGHT - 1)
           /\ \A j \in 1..n : Len(calls[j].arg) \in 1..BUFFER_WIDTH) =>
        /\ writer.column_position = 0
        /\ \A col \in Cols : writer.buffer[LAST_ROW][col] = Blank(writer)
        /\ \A j \in 1..n, col \in Cols :
              writer.buffer[BUFFER_HEIGHT - 2 - (n - j)][col]
                 = IF col < Len(calls[j].arg)
                   THEN ScreenChar(calls[j].arg[col + 1], writer.color_code)
                   ELSE IF j = 1 THEN initial.buffer[LAST_ROW][col]
                   ELSE Blank(writer)
        /\ \A row \in 0..(BUFFER_HEIGHT - 2 - n) :
              writer.buffer[row] = initial.buffer[row + n]
        /\ (n = 2 /\ calls[1].arg = <<97>> /\ calls[2].arg = <<98, 99>>) =>
              /\ writer.buffer[BUFFER_HEIGHT - 3][0].ascii_character = 97
              /\ writer.buffer[BUFFER_HEIGHT - 2][0].ascii_character = 98
              /\ writer.buffer[BUFFER_HEIGHT - 2][1].ascii_character = 99

\* the lines "a" and "bc" were written to the blank grid
C10_Witness ==
    /\ initial.buffer = construct_buffer
    /\ OnlyLines /\ Len(calls) = 2
    /\ calls[1].arg = <<97>> /\ calls[2].arg = <<98, 99>>
    /\ writer.buffer[BUFFER_HEIGHT - 2][1] = ScreenChar(99, writer.color_code)

(***************************************************************************)
(* Properties of the kernel's print path.                                  *)
(***************************************************************************)
\* the contexts that hold the MutexGuard of WRITER
Holders == {c \in Contexts : pc[c] \in {"write", "unwrap"}}

\* a step of context c: each one moves c or shortens what c has left to write
StepOf(c) == pc'[c] # pc[c] \/ pending'[c] # pending[c]

\* C1 (mutual exclusion): at most one context holds the lock of WRITER, the
\* flag is set exactly while one does, and no step a context takes while
\* another one holds the lock touches column_position or a cell.
C1_MutualExclusion ==
    /\ [](Cardinality(Holders) <= 1 /\ (locked <=> Holders # {}))
    /\ [][\A c \in Contexts, d \in Contexts :
             (c # d /\ d \in Holders /\ StepOf(c)) =>
                 (writer' = writer /\ pc'[c] # "write")]_vars

\* the handler waits for the lock that _start holds in the middle of its text
C1_Witness ==
    /\ pc["main"] = "write" /\ locked
    /\ pending["main"] # <<>> /\ pending["main"] # text["main"]
    /\ pc["panic"] = "lock" /\ running = "panic"

\* C2 (progress of printing) as the claim states it: a print call of the
\* context that has the core acquires the Writer, writes its text and
\* returns, unless the context loses the core to the handler for good.
C2_Progress ==
    \A c \in Contexts :
        (running = c /\ pc[c] \in {"deref", "init", "lock", "write"})
            ~> (pc[c] = "loop" \/ running # c)

\* the bytes context c has issued to write_byte so far
Issued(c) ==
    SubSeq(MapBytes(Forwarded, text[c]), 1, Len(text[c]) - Len(pending[c]))

RECURSIVE IssuedInOrder(_)
IssuedInOrder(contexts) ==
    IF contexts = <<>> THEN <<>>
    ELSE Issued(Head(contexts)) \o IssuedInOrder(Tail(contexts))

\* C3 (print calls are atomic): the bytes fed to write_byte are the whole
\* byte sequences of the print calls in the order the calls acquired the
\* lock, each with the newline println! appends, followed by what the
\* current holder has written; a context that has not acquired the lock has
\* written nothing.
C3_Atomic ==
    /\ writer.bytes = IssuedInOrder(order)
    /\ \A i \in 1..(Len(order) - 1) :
          /\ pending[order[i]] = <<>>
          /\ text[order[i]][Len(text[order[i]])] = NEWLINE
    /\ \A i \in 1..Len(order), j \in 1..Len(order) : order[i] = order[j] => i = j
    /\ \A c \in Contexts : (\A i \in 1..Len(order) : order[i] # c) => pending[c] = text[c]

\* the handler's whole text follows the whole text of _start
C3_Witness ==
    /\ order = <<"main", "panic">>
    /\ pc["panic"] = "loop"
    /\ writer.bytes = MapBytes(Forwarded, text["main"] \o text["panic"])

(***************************************************************************)
(* Properties of the attribute byte.                                       *)
(***************************************************************************)
\* C11 (color attribute encoding): Color has the 16 values 0..15, and for
\* every pair (foreground, background) ColorCode::new gives the byte
\* background * 16 + foreground, which is (background << 4) | foreground with
\* nothing lost past bit 7: its low 4 bits are the foreground, its high 4
\* bits the background, and no other pair gives the same byte.
C11_ColorCode ==
    /\ ColorValues = 0..15
    /\ Cardinality(DOMAIN Color) = 16
    /\ LatestIs("ColorCode_new") =>
          LET code == writer.color_code
          IN  /\ Latest.arg = <<foreground, background>>
              /\ code \in 0..255
              /\ code = background * 16 + foreground
              /\ code % 16 = foreground
              /\ code \div 16 = background
              /\ \A fg \in ColorValues, bg \in ColorValues :
                    <<fg, bg>> # <<foreground, background>> =>
                        ColorCode_new(fg, bg) # code

\* the byte of White on White, the pair with all eight bits set
C11_Witness ==
    /\ LatestIs("ColorCode_new")
    /\ foreground = Color.White /\ background = Color.White
    /\ writer.color_code = 255

(***************************************************************************)
(* Properties of the formatted writes.                                     *)
(***************************************************************************)
\* the strings the driver may hand to the Writer in the state it is in, and
\* the empty string
NextStrings ==
    StringInputs[Budget] \cup (IF calls = <<>> THEN EdgeStrings ELSE {}) \cup {<<>>}

\* C12 (formatting through the Writer always succeeds): in every state of the
\* Writer and for every string, write_str returns Ok after it wrote the whole
\* string (one write_byte per byte of the string), so write_fmt of a literal,
\* an argument and the newline returns Ok too and the unwrap that follows
\* passes.
C12_AlwaysOk ==
    /\ \A s \in NextStrings :
          LET done == write_str(writer, s)
          IN  /\ done.result = "Ok"
              /\ done.writer = write_string(writer, s)
              /\ done.writer.bytes = writer.bytes \o MapBytes(Forwarded, s)
    /\ \A literal \in LiteralInputs, argument \in ArgumentInputs :
          LET done == write_fmt(writer, <<literal, argument, <<NEWLINE>>>>)
          IN  /\ done.result = "Ok"
              /\ done.writer.bytes
                    = writer.bytes \o literal \o argument \o <<NEWLINE>>
    /\ LatestIs("writeln") =>
          writer.bytes = prev.bytes \o Latest.arg \o <<NEWLINE>>

\* a formatted write of "bc" on a Writer in the middle of a line
C12_Witness ==
    /\ LatestIs("writeln")
    /\ Latest.arg = <<98, 99>>
    /\ prev.column_position > 0
    /\ writer.bytes = prev.bytes \o <<98, 99, NEWLINE>>

\* C13 (scoped acquisition) as the claim states it: a print call that has
\* stopped executing, by returning or by the failure of its unwrap, no longer
\* holds the lock of WRITER: the flag is then set only while another context
\* is inside its own write.
C13_Released ==
    \A c \in Contexts :
        pc[c] \in {"loop", "unwrap"} =>
            (locked => \E d \in Contexts \ {c} : pc[d] = "write")

\* the contexts that run the initializer of WRITER
Initializers == {c \in Contexts : pc[c] = "init"}

\* C14 (singleton construction): the initializer of WRITER runs at most once,
\* at the first access and by one context only, also when the handler makes
\* its first access while _start is in the middle of its own; it builds the
\* Writer with column_position 0 and the attribute Yellow on Black (0x0E) on
\* the grid as it is; no context reaches the lock before the Writer is built;
\* once built it is never built again, and the Writer changes only by the
\* bytes a lock holder writes, so a print call starts from the
\* column_position and the grid the call before it left.
C14_Singleton ==
    /\ [](/\ Cardinality(Initializers) <= 1
          /\ once = "RUNNING" <=> Initializers # {}
          /\ once # "COMPLETE" =>
                /\ \A c \in Contexts : pc[c] \in {"idle", "deref", "init"}
                /\ writer = initial /\ writer.bytes = <<>>
          /\ once = "COMPLETE" =>
                /\ initial.column_position = 0
                /\ initial.color_code = 14
                /\ initial.color_code = ColorCode_new(Color.Yellow, Color.Black)
                /\ initial.buffer \in GridInputs)
    /\ [][/\ once = "COMPLETE" => (once' = "COMPLETE" /\ initial' = initial)
          /\ initial' # initial =>
                (once = "RUNNING" /\ writer' = initial'
                   /\ initial'.buffer = initial.buffer)
          /\ (once = "COMPLETE" /\ writer' # writer) =>
                \E c \in Contexts :
                    /\ pc[c] = "write" /\ pending[c] # <<>>
                    /\ writer' = WriteStringByte(writer, Head(pending[c]))]_vars

\* the handler's print call writes on from where the call of _start left the
\* Writer that _start built
C14_Witness ==
    /\ once = "COMPLETE"
    /\ order = <<"main", "panic">>
    /\ pc["panic"] = "write" /\ pending["panic"] # text["panic"]
    /\ Len(writer.bytes) > Len(text["main"])
    /\ writer.new_lines >= 1
    /\ initial.color_code = 14

(***************************************************************************)
(* Properties of the Writer's indices and cells.                           *)
(***************************************************************************)
\* C15 (index safety): column_position is always in 0..WIDTH, and every
\* index pair the Writer used in chars[row][col] has its row in 0..HEIGHT-1
\* and its column in 0..WIDTH-1; write_byte of a byte other than the newline
\* writes at (HEIGHT-1, column_position), never at column WIDTH: its test
\* column_position >= WIDTH fires, and calls new_line, exactly when
\* column_position = WIDTH, and the byte then goes to column 0.
C15_IndexSafe ==
    /\ writer.column_position \in 0..BUFFER_WIDTH
    /\ \A index \in writer.touched : index[1] \in Rows /\ index[2] \in Cols
    /\ (LatestIs("write_byte") /\ Latest.arg # <<NEWLINE>>) =>
          /\ prev.column_position >= BUFFER_WIDTH <=> prev.column_position = BUFFER_WIDTH
          /\ writer.new_lines
                = prev.new_lines + (IF prev.column_position = BUFFER_WIDTH THEN 1 ELSE 0)
          /\ <<LAST_ROW, IF prev.column_position = BUFFER_WIDTH THEN 0
                         ELSE prev.column_position>> \in writer.touched
          /\ writer.touched \ prev.touched
                \subseteq (IF prev.column_position = BUFFER_WIDTH THEN Rows \X Cols
                           ELSE {<<LAST_ROW, prev.column_position>>})

\* a byte was written with column_position = WIDTH, and by then every cell
\* of the grid has been read or written
C15_Witness ==
    /\ LatestIs("write_byte") /\ Latest.arg # <<NEWLINE>>
    /\ prev.column_position = BUFFER_WIDTH
    /\ writer.column_position = 1
    /\ writer.touched = Rows \X Cols

\* the latest call was write_byte of a byte other than the newline on a row
\* that had room for it
PlainWrite ==
    /\ LatestIs("write_byte") /\ Latest.arg # <<NEWLINE>>
    /\ prev.column_position < BUFFER_WIDTH

\* C16 (frame of a plain write): write_byte of a byte other than the newline
\* with column_position < WIDTH stores the byte with the Writer's attribute in
\* the one cell (HEIGHT-1, old column_position), adds 1 to column_position and
\* leaves every other cell and the attribute as they were; no call changes the
\* attribute, and a call that ran no new_line leaves the rows above the last
\* one as they were.
C16_Frame ==
    /\ PlainWrite =>
          /\ writer.buffer
                = [prev.buffer EXCEPT ![LAST_ROW][prev.column_position]
                      = ScreenChar(Latest.arg[1], prev.color_code)]
          /\ \A row \in Rows, col \in Cols :
                <<row, col>> # <<LAST_ROW, prev.column_position>> =>
                    writer.buffer[row][col] = prev.buffer[row][col]
          /\ writer.column_position = prev.column_position + 1
          /\ writer.new_lines = prev.new_lines
    /\ writer.color_code = prev.color_code
    /\ writer.new_lines = prev.new_lines =>
          \A row \in Rows \ {LAST_ROW} : writer.buffer[row] = prev.buffer[row]

\* the last cell of the last row of the patterned grid was written, the first
\* cells before it
C16_Witness ==
    /\ PlainWrite
    /\ initial.buffer = PatternBuffer
    /\ prev.column_position = BUFFER_WIDTH - 1
    /\ writer.column_position = BUFFER_WIDTH
    /\ writer.buffer[LAST_ROW][BUFFER_WIDTH - 1].ascii_character = Latest.arg[1]
    /\ \A row \in Rows \ {LAST_ROW} : writer.buffer[row] = PatternBuffer[row]

\* the bytes handed to write_byte since the most recent new_line, which a
\* newline runs and so does the byte that finds the row full; line is what
\* was there before bytes
RECURSIVE SinceNewLine(_, _)
SinceNewLine(bytes, line) ==
    IF bytes = <<>> THEN line
    ELSE IF Head(bytes) = NEWLINE THEN SinceNewLine(Tail(bytes), <<>>)
    ELSE IF Len(line) = BUFFER_WIDTH THEN SinceNewLine(Tail(bytes), <<Head(bytes)>>)
    ELSE SinceNewLine(Tail(bytes), Append(line, Head(bytes)))

\* C17 (invariant of the last row): building the Writer clears nothing: until
\* the first new_line every cell not yet written holds what the grid held when
\* the Writer was built.  After at least one new_line the cells of row
\* HEIGHT-1 at columns >= column_position are the blank Cell (a space in the
\* Writer's attribute) and the cells at columns < column_position hold exactly
\* the bytes written since the most recent new_line, in order, in the
\* Writer's attribute.
C17_LastRow ==
    LET line == SinceNewLine(writer.bytes, <<>>)
    IN  /\ writer.new_lines = 0 =>
              \A row \in Rows, col \in Cols :
                  (row # LAST_ROW \/ col >= writer.column_position) =>
                      writer.buffer[row][col] = initial.buffer[row][col]
        /\ writer.new_lines >= 1 =>
              /\ Len(line) = writer.column_position
              /\ \A col \in Cols :
                    writer.buffer[LAST_ROW][col]
                       = IF col < writer.column_position
                         THEN ScreenChar(line[col + 1], writer.color_code)
                         ELSE ScreenChar(SPACE, writer.color_code)

\* two bytes on the last row of the patterned grid after a new_line
C17_Witness ==
    /\ initial.buffer = PatternBuffer
    /\ writer.new_lines >= 1
    /\ writer.column_position = 2
    /\ writer.buffer[LAST_ROW][1].ascii_character = writer.bytes[Len(writer.bytes)]
    /\ \A col \in Cols : col >= 2 => writer.buffer[LAST_ROW][col] = Blank(writer)

\* where each byte handed to write_byte went, for bytes written from the
\* given column after the given number of new_lines: the number of new_lines
\* run when the byte was stored, and its column (none for a newline)
RECURSIVE Places(_, _, _)
Places(bytes, column, line) ==
    IF bytes = <<>> THEN <<>>
    ELSE IF Head(bytes) = NEWLINE
    THEN <<[line |-> line + 1, column |-> -1]>> \o Places(Tail(bytes), 0, line + 1)
    ELSE IF column = BUFFER_WIDTH
    THEN <<[line |-> line + 1, column |-> 0]>> \o Places(Tail(bytes), 1, line + 1)
    ELSE <<[line |-> line, column |-> column]>> \o Places(Tail(bytes), column + 1, line)

\* the grid the scroll history gives: the cell k rows above the last one, in
\* column col, holds the byte stored in that column k new_lines ago; if no
\* byte was, it is blank when its row was made by a new_line, and else it is
\* the cell of the grid the Writer was built on, k rows further up
FromHistory(w, first) ==
    LET places == Places(w.bytes, 0, 0)
    IN  [row \in Rows |-> [col \in Cols |->
            LET line == w.new_lines - (LAST_ROW - row)
                here == {i \in 1..Len(w.bytes) :
                            /\ w.bytes[i] # NEWLINE
                            /\ places[i] = [line |-> line, column |-> col]}
            IN  IF here # {}
                THEN ScreenChar(w.bytes[CHOOSE i \in here : TRUE], w.color_code)
                ELSE IF line >= 1 THEN Blank(w)
                ELSE first.buffer[row + w.new_lines][col]]]

\* C18 (scroll history): a byte stored at (HEIGHT-1, c) is found, with its
\* character and attribute, at (HEIGHT-1-k, c) after k later new_lines for
\* every k in 0..HEIGHT-1, whatever was written in between, and in no cell
\* after HEIGHT later new_lines: every cell of the grid is accounted for by
\* the byte stored in its column the right number of new_lines ago, by a
\* blank, or by the initial grid moved up.  After HEIGHT new_lines no cell
\* holds content of the initial grid.
C18_History ==
    LET places == Places(writer.bytes, 0, 0)
    IN  /\ \A i \in 1..Len(writer.bytes) :
              LET k == writer.new_lines - places[i].line
              IN  (writer.bytes[i] # NEWLINE /\ k \in 0..(BUFFER_HEIGHT - 1)) =>
                      writer.buffer[LAST_ROW - k][places[i].column]
                         = ScreenChar(writer.bytes[i], writer.color_code)
        /\ \A i \in 1..Len(writer.bytes), j \in 1..Len(writer.bytes) :
              (places[i] = places[j] /\ writer.bytes[i] # NEWLINE) => i = j
        /\ writer.buffer = FromHistory(writer, initial)
        /\ writer.new_lines >= BUFFER_HEIGHT =>
              \A row \in Rows, col \in Cols :
                  /\ writer.buffer[row][col].color_code = writer.color_code
                  /\ writer.buffer[row][col] # initial.buffer[row][col]

\* a byte stored on the patterned grid has left the grid with the grid's
\* own cells, HEIGHT new_lines later
C18_Witness ==
    /\ initial.buffer = PatternBuffer
    /\ Len(writer.bytes) > 0 /\ writer.bytes[1] # NEWLINE
    /\ writer.new_lines = BUFFER_HEIGHT
    /\ \A row \in Rows, col \in Cols :
          writer.buffer[row][col].ascii_character # writer.bytes[1]

\* the bytes a sequence of calls of the driver hands to write_byte, one call
\* after the other
RECURSIVE Rendered(_)
Rendered(cs) ==
    IF cs = <<>> THEN <<>>
    ELSE LET call == Head(cs)
         IN  (IF call.name = "write_byte" THEN call.arg
              ELSE IF call.name = "write_string" THEN MapBytes(Forwarded, call.arg)
              ELSE call.arg \o <<NEWLINE>>) \o Rendered(Tail(cs))

\* the bytes handed to write_byte one at a time
RECURSIVE Replay(_, _)
Replay(self, bytes) ==
    IF bytes = <<>> THEN self ELSE Replay(write_byte(self, Head(bytes)), Tail(bytes))

\* C19 (split invariance): the Writer's state depends on the state it was
\* built in and on the concatenation of the bytes written, not on how they
\* were cut into calls: write_string(s) gives what write_string(s1) and then
\* write_string(s2) give for every cut s = s1 ++ s2, a formatted write
\* delivered in pieces gives what write_string of the rendered text gives,
\* and the state after any calls is the one the bytes of all of them give
\* when written one at a time.
C19_SplitInvariant ==
    /\ LatestIs("write_string") =>
          \A k \in 0..Len(Latest.arg) :
              LET s1 == SubSeq(Latest.arg, 1, k)
                  s2 == SubSeq(Latest.arg, k + 1, Len(Latest.arg))
              IN  /\ s1 \o s2 = Latest.arg
                  /\ write_string(write_string(prev, s1), s2) = writer
                  /\ write_fmt(prev, <<s1, s2>>).writer = writer
    /\ LatestIs("writeln") =>
          /\ writer = write_string(prev, Latest.arg \o <<NEWLINE>>)
          /\ \A k \in 0..Len(Latest.arg) :
                write_fmt(prev, <<SubSeq(Latest.arg, 1, k),
                                  SubSeq(Latest.arg, k + 1, Len(Latest.arg)),
                                  <<NEWLINE>>>>).writer = writer
    /\ writer.bytes = Rendered(calls)
    /\ writer = Replay(initial, Rendered(calls))

\* a string with a newline before its last byte was written from the middle
\* of a row
C19_Witness ==
    /\ LatestIs("write_string")
    /\ Len(Latest.arg) >= 2
    /\ prev.column_position = BUFFER_WIDTH - 1
    /\ writer.new_lines > prev.new_lines
    /\ writer.column_position > 0

====
